---- MODULE Spec2Model ----
(***************************************************************************)
(* A model of the NodeFacebook client (src/src/index.ts): its construction *)
(* from explicit configuration and environment, the version setter and the *)
(* derived endpoints, URL normalization and signing, the verb methods, the *)
(* response decoding and the OAuth2 token exchange.                         *)
(*                                                                         *)
(* JavaScript values are tagged records, so that `||`, optional chaining,  *)
(* template interpolation and querystring.stringify act on them as the     *)
(* runtime does.  Strings that the code searches (paths, URLs) are          *)
(* sequences of atoms: the separators "/", "?", "&", "=", "|", " " and     *)
(* words that contain none of them.                                        *)
(***************************************************************************)
EXTENDS Integers, Sequences, FiniteSets, Bags, TLC

VARIABLES
  phase,                \* "new": constructor not yet run; "ready"; "threw"
  ctorConfig,           \* the argument of the constructor (kept for reference)
  env,                  \* process.env at construction (kept for reference)
  config,               \* this.config
  oAuthDialogUrl,       \* this.oAuthDialogUrl
  oAuthDialogUrlMobile, \* this.oAuthDialogUrlMobile
  graphUrl,             \* this.graphUrl
  accessToken,          \* this.accessToken
  pending,              \* requests handed to the transport and not yet settled
  ev                    \* the last step taken: a call, a settlement or a setter

vars == <<phase, ctorConfig, env, config, oAuthDialogUrl, oAuthDialogUrlMobile,
          graphUrl, accessToken, pending, ev>>

---------------------------------------------------------------------------
(* JavaScript values *)

U == [t |-> "undefined"]
B(b) == [t |-> "boolean", v |-> b]
S(s) == [t |-> "string", v |-> s]
N(n) == [t |-> "number", v |-> n]
O(m) == [t |-> "object", m |-> m]
A(a) == [t |-> "array", a |-> a]

\* ToBoolean: undefined, false, "" and 0 are falsy; every object is truthy.
Truthy(j) ==
  CASE j.t = "undefined" -> FALSE
    [] j.t = "boolean" -> j.v
    [] j.t = "string" -> j.v # ""
    [] j.t = "number" -> j.v # 0
    [] OTHER -> TRUE

\* a || b
Or(a, b) == IF Truthy(a) THEN a ELSE b

HasKey(m, k) == \E i \in 1..Len(m) : m[i][1] = k

RECURSIVE Lookup(_, _)
Lookup(m, k) ==
  IF m = <<>> THEN U
  ELSE IF Head(m)[1] = k THEN Head(m)[2]
  ELSE Lookup(Tail(m), k)

\* obj?.k and obj.k on a defined object: the value, or undefined when absent.
Prop(j, k) == IF j.t = "object" THEN Lookup(j.m, k) ELSE U

\* obj.k = v: replaces in place, or appends a new key.
SetProp(m, k, v) ==
  IF HasKey(m, k)
  THEN [i \in 1..Len(m) |-> IF m[i][1] = k THEN <<k, v>> ELSE m[i]]
  ELSE Append(m, <<k, v>>)

\* delete obj.k
RECURSIVE DeleteProp(_, _)
DeleteProp(m, k) ==
  IF m = <<>> THEN <<>>
  ELSE IF Head(m)[1] = k THEN DeleteProp(Tail(m), k)
  ELSE <<Head(m)>> \o DeleteProp(Tail(m), k)

Digit(d) == <<"0", "1", "2", "3", "4", "5", "6", "7", "8", "9">>[d + 1]

RECURSIVE Decimal(_)
Decimal(n) == IF n < 10 THEN Digit(n) ELSE Decimal(n \div 10) \o Digit(n % 10)

\* ${j} in a template literal.
TemplateString(j) ==
  CASE j.t = "undefined" -> "undefined"
    [] j.t = "boolean" -> IF j.v THEN "true" ELSE "false"
    [] j.t = "string" -> j.v
    [] j.t = "number" -> Decimal(j.v)
    [] OTHER -> "[object Object]"

\* String.prototype.toLowerCase on the words the code compares.
ToLowerCase(s) ==
  CASE s = "TRUE" -> "true"
    [] s = "True" -> "true"
    [] s = "FALSE" -> "false"
    [] s = "METHOD" -> "method"
    [] s = "DELETE" -> "delete"
    [] s = "Delete" -> "delete"
    [] OTHER -> s

---------------------------------------------------------------------------
(* Construction *)

defaultVersion == "8.0"

\* new URL(s): whether s parses, and the pathname of the result.
UrlParses(s) == s \in {"http://localhost:4000", "http://localhost:4000/",
                       "http://localhost:4000/cb", "http://env.example"}
UrlPathname(s) == IF s = "http://localhost:4000/cb" THEN "/cb" ELSE "/"
\* s.substr(-1)
LastChar(s) ==
  CASE s = "http://localhost:4000/" -> "/"
    [] s = "http://localhost:4000/cb" -> "b"
    [] s = "http://env.example" -> "e"
    [] s = "http://localhost:4000" -> "0"
    [] OTHER -> ""

\* process.env.X?.toLowerCase() === 'true'
EnvIsTrue(e, k) ==
  LET x == Prop(e, k) IN B(x.t = "string" /\ ToLowerCase(x.v) = "true")

\* The normalizedConfig literal of the constructor.
NormalizedConfig(c, e) ==
  [client_id |-> Or(Or(Prop(c, "client_id"), Prop(e, "FACEBOOK_CLIENT_ID")), S("")),
   client_secret |-> Or(Or(Prop(c, "client_secret"), Prop(e, "FACEBOOK_CLIENT_SECRET")), S("")),
   redirect_uri |-> Or(Or(Prop(c, "redirect_uri"), Prop(e, "FACEBOOK_REDIRECT_URI")), S("")),
   scope |-> Or(Or(Prop(c, "scope"), Prop(e, "FACEBOOK_SCOPE")), S("")),
   mobile |-> Or(Or(Prop(c, "mobile"), EnvIsTrue(e, "FACEBOOK_MOBILE")), B(FALSE)),
   version |-> Or(Or(Prop(c, "version"), Prop(e, "FACEBOOK_VERSION")), S(defaultVersion)),
   debug |-> Or(Or(Prop(c, "debug"), EnvIsTrue(e, "FACEBOOK_DEBUG")), B(FALSE))]

\* The trailing slash given to a redirect URI whose path is the root.
NormalizeRedirectUri(n) ==
  IF UrlPathname(n.redirect_uri.v) = "/" /\ LastChar(n.redirect_uri.v) # "/"
  THEN [n EXCEPT !.redirect_uri = S(n.redirect_uri.v \o "/")]
  ELSE n

\* The three endpoints setVersion derives from a version.
DialogUrlOf(version) == <<"https://www.facebook.com/v", version, "/dialog/oauth?">>
DialogUrlMobileOf(version) == <<"https://m.www.facebook.com/v", version, "/dialog/oauth?">>
GraphUrlOf(version) == <<"https://graph.facebook.com/v", version>>

\* A setVersion that derives the graph endpoint from the default version.
setVersionDefaultGraphUrl(cfg, version) ==
  [config |-> [cfg EXCEPT !.version = S(version)],
   oAuthDialogUrl |-> DialogUrlOf(version),
   oAuthDialogUrlMobile |-> DialogUrlMobileOf(version),
   graphUrl |-> GraphUrlOf(defaultVersion)]

\* setVersion(version): the version and the three endpoints, written together.
setVersion(cfg, version) ==
  [config |-> [cfg EXCEPT !.version = S(version)],
   oAuthDialogUrl |-> DialogUrlOf(version),
   oAuthDialogUrlMobile |-> DialogUrlMobileOf(version),
   graphUrl |-> GraphUrlOf(version)]

\* constructor(config?): throws when the redirect URI does not parse; otherwise
\* stores the normalized config and calls setVersion with its version.
constructor(c, e) ==
  LET n == NormalizedConfig(c, e) IN
    IF ~UrlParses(n.redirect_uri.v)
    THEN [threw |-> TRUE]
    ELSE [threw |-> FALSE, fields |-> setVersion(NormalizeRedirectUri(n), n.version.v)]

NoEvent == [kind |-> "none"]

\* The object as the field initializers leave it, before the constructor body.
Fresh(c, e) ==
  /\ phase = "new"
  /\ ctorConfig = c
  /\ env = e
  /\ config = U
  /\ oAuthDialogUrl = <<>>
  /\ oAuthDialogUrlMobile = <<>>
  /\ graphUrl = <<>>
  /\ accessToken = S("")
  /\ pending = EmptyBag
  /\ ev = NoEvent

\* The object a successful new NodeFacebook(c) leaves under environment e.
Constructed(c, e) ==
  LET r == constructor(c, e) IN
    /\ ~r.threw
    /\ phase = "ready"
    /\ ctorConfig = c
    /\ env = e
    /\ config = r.fields.config
    /\ oAuthDialogUrl = r.fields.oAuthDialogUrl
    /\ oAuthDialogUrlMobile = r.fields.oAuthDialogUrlMobile
    /\ graphUrl = r.fields.graphUrl
    /\ accessToken = S("")
    /\ pending = EmptyBag
    /\ ev = NoEvent

\* new NodeFacebook(ctorConfig), as a step.
Construct ==
  /\ phase = "new"
  /\ LET r == constructor(ctorConfig, env) IN
       IF r.threw
       THEN /\ phase' = "threw"
            /\ UNCHANGED <<config, oAuthDialogUrl, oAuthDialogUrlMobile, graphUrl>>
       ELSE /\ phase' = "ready"
            /\ config' = r.fields.config
            /\ oAuthDialogUrl' = r.fields.oAuthDialogUrl
            /\ oAuthDialogUrlMobile' = r.fields.oAuthDialogUrlMobile
            /\ graphUrl' = r.fields.graphUrl
  /\ ev' = [kind |-> "constructor"]
  /\ UNCHANGED <<ctorConfig, env, accessToken, pending>>

---------------------------------------------------------------------------
(* Strings as sequences of atoms *)

\* s.indexOf(pat) !== -1, for a pattern that is itself a sequence of atoms.
Contains(s, pat) ==
  \E i \in 1..(Len(s) + 1 - Len(pat)) :
    \A j \in 1..Len(pat) : s[i + j - 1] = pat[j]

\* s.trim()
RECURSIVE TrimStart(_)
TrimStart(s) == IF s # <<>> /\ Head(s) = " " THEN TrimStart(Tail(s)) ELSE s

RECURSIVE TrimEnd(_)
TrimEnd(s) ==
  IF s # <<>> /\ s[Len(s)] = " " THEN TrimEnd(SubSeq(s, 1, Len(s) - 1)) ELSE s

Trim(s) == TrimEnd(TrimStart(s))

\* querystring.escape / encodeURIComponent: words of unreserved characters are
\* left as they are, the others are percent-encoded.
PercentEncode(w) ==
  CASE w = "http://localhost:4000/" -> "http%3A%2F%2Flocalhost%3A4000%2F"
    [] w = "http://localhost:4000/cb" -> "http%3A%2F%2Flocalhost%3A4000%2Fcb"
    [] w = "http://env.example/" -> "http%3A%2F%2Fenv.example%2F"
    [] w = "email,user_friends" -> "email%2Cuser_friends"
    [] w = "{\"name\":\"SELECT name FROM user\"}"
         -> "%7B%22name%22%3A%22SELECT%20name%20FROM%20user%22%7D"
    [] OTHER -> w

\* stringifyPrimitive of querystring: strings, numbers and booleans; else ''.
StringifyPrimitive(j) ==
  CASE j.t = "string" -> j.v
    [] j.t = "number" -> Decimal(j.v)
    [] j.t = "boolean" -> IF j.v THEN "true" ELSE "false"
    [] OTHER -> ""

\* querystring.stringify(obj): key=value pairs in key order, joined by '&'.
RECURSIVE Stringify(_)
Stringify(m) ==
  IF m = <<>> THEN <<>>
  ELSE <<PercentEncode(Head(m)[1]), "=", PercentEncode(StringifyPrimitive(Head(m)[2]))>>
       \o (IF Tail(m) = <<>> THEN <<>> ELSE <<"&">> \o Stringify(Tail(m)))

\* JSON.stringify of a value: an object's undefined members are left out.
RECURSIVE JsonMembers(_, _)
RECURSIVE JsonElements(_, _)
RECURSIVE JsonStringify(_)
JsonMembers(m, first) ==
  IF m = <<>> THEN ""
  ELSE IF Head(m)[2].t = "undefined" THEN JsonMembers(Tail(m), first)
  ELSE (IF first THEN "" ELSE ",") \o "\"" \o Head(m)[1] \o "\":"
       \o JsonStringify(Head(m)[2]) \o JsonMembers(Tail(m), FALSE)
JsonElements(a, first) ==
  IF a = <<>> THEN ""
  ELSE (IF first THEN "" ELSE ",") \o JsonStringify(Head(a)) \o JsonElements(Tail(a), FALSE)
JsonStringify(j) ==
  CASE j.t = "string" -> "\"" \o j.v \o "\""
    [] j.t = "number" -> Decimal(j.v)
    [] j.t = "boolean" -> IF j.v THEN "true" ELSE "false"
    [] j.t = "object" -> "{" \o JsonMembers(j.m, TRUE) \o "}"
    [] j.t = "array" -> "[" \o JsonElements(j.a, TRUE) \o "]"
    [] OTHER -> "undefined"

\* crypto.createHmac('sha256', key).update(msg).digest('hex'): a digest is
\* determined by its key and message, and distinct pairs give distinct digests.
HmacSha256Hex(key, msg) == "hmacsha256_" \o key \o "_" \o msg

---------------------------------------------------------------------------
(* URL normalization and signing *)

\* A proof with key and message exchanged.
AppSecretProofKeyedByToken(secret, token) == HmacSha256Hex(token, secret)

\* Lines 298-303: the proof of the current token under the client secret.
AppSecretProof(secret, token) == HmacSha256Hex(secret, token)

\* A normalizeUrl that signs the access_token the caller passed, when there is
\* one, and still injects the client's.
NormalizeUrlSignsCallerToken(rawUrl, params) ==
  IF ~Truthy(Prop(params, "guest")) /\ params.t # "object"
  THEN [threw |-> TRUE]
  ELSE
    LET signedToken == Or(Prop(params, "access_token"), accessToken)
        q1 == IF ~Truthy(Prop(params, "guest"))
              THEN SetProp(params.m, "access_token", accessToken)
              ELSE params.m
        q2 == DeleteProp(q1, "guest")
        t == Trim(rawUrl)
        url == IF t # <<>> /\ Head(t) = "/" THEN Tail(t) ELSE t
        q3 == IF /\ Truthy(accessToken)
                 /\ Truthy(config.client_secret)
                 /\ ~Contains(url, <<"appsecret_proof">>)
              THEN SetProp(q2, "appsecret_proof",
                           S(AppSecretProof(config.client_secret.v, signedToken.v)))
              ELSE q2
    IN [threw |-> FALSE,
        url |-> graphUrl \o <<"/">> \o url \o <<"?">> \o Stringify(q3),
        query |-> q3,
        logged |-> Truthy(config.debug)]

\* normalizeUrl(rawUrl, params): throws when params is undefined and the token
\* is to be injected; otherwise the URL, the query map it serialized into the
\* URL, and whether the URL was logged.
NormalizeUrl(rawUrl, params) ==
  IF ~Truthy(Prop(params, "guest")) /\ params.t # "object"
  THEN [threw |-> TRUE]
  ELSE
    LET q1 == IF ~Truthy(Prop(params, "guest"))
              THEN SetProp(params.m, "access_token", accessToken)
              ELSE params.m
        q2 == DeleteProp(q1, "guest")
        t == Trim(rawUrl)
        url == IF t # <<>> /\ Head(t) = "/" THEN Tail(t) ELSE t
        q3 == IF /\ Truthy(accessToken)
                 /\ Truthy(config.client_secret)
                 /\ ~Contains(url, <<"appsecret_proof">>)
              THEN SetProp(q2, "appsecret_proof",
                           S(AppSecretProof(config.client_secret.v, accessToken.v)))
              ELSE q2
    IN [threw |-> FALSE,
        url |-> graphUrl \o <<"/">> \o url \o <<"?">> \o Stringify(q3),
        query |-> q3,
        logged |-> Truthy(config.debug)]

---------------------------------------------------------------------------
(* The transport and the response decoding *)

MaxInflight == 2

\* What the transport does with a request: it fails, or it answers with a
\* response whose body decodes to a JSON value.
NetworkFailure == [kind |-> "failure"]
Response(data) == [kind |-> "response", data |-> data]

RemoteError ==
  O(<< <<"type", S("OAuthException")>>, <<"message", S("Invalid code")>>,
       <<"code", N(100)>>, <<"error_subcode", N(36007)>>,
       <<"fbtrace_id", S("abc")>> >>)

Replies ==
  { NetworkFailure,
    Response(O(<< <<"access_token", S("newtok")>> >>)),
    Response(O(<< <<"id", S("123")>> >>)),
    Response(O(<< <<"error", RemoteError>>, <<"access_token", S("badtok")>> >>)) }

Resolved(value) == [status |-> "resolved", value |-> value]
Rejected(error) == [status |-> "rejected", error |-> error]
Sent == [status |-> "pending"]

\* TypeError: Cannot set properties of undefined (setting 'access_token')
TypeError == [name |-> "TypeError"]
\* What node-fetch rejects with.
FetchError == [name |-> "FetchError"]

\* processResponse(response): the decoded payload, or an Error whose message
\* interpolates the five fields of the payload's error member.
processResponse(data) ==
  LET e == Prop(data, "error") IN
    IF Truthy(e)
    THEN Rejected([name |-> "Error",
                   message |-> << <<"type", TemplateString(Prop(e, "type"))>>,
                                  <<"message", TemplateString(Prop(e, "message"))>>,
                                  <<"code", TemplateString(Prop(e, "code"))>>,
                                  <<"error_subcode", TemplateString(Prop(e, "error_subcode"))>>,
                                  <<"fbtrace_id", TemplateString(Prop(e, "fbtrace_id"))>> >>])
    ELSE Resolved(data)

\* fetch(...).then(this.processResponse)
FetchThenProcess(reply) ==
  IF reply.kind = "failure" THEN Rejected(FetchError) ELSE processResponse(reply.data)

---------------------------------------------------------------------------
(* The verb methods: the synchronous part of each call *)

\* get(url, params): the request handed to fetch, or the throw of normalizeUrl.
get(url, params) ==
  LET n == NormalizeUrl(url, params) IN
    IF n.threw THEN [threw |-> TRUE]
    ELSE [threw |-> FALSE, method |-> "get", follow |-> 0, url |-> n.url,
          body |-> U, query |-> n.query, logged |-> n.logged]

\* post(url, postData): normalizeUrl is called without params.
post(url, postData) ==
  LET n == NormalizeUrl(url, U) IN
    IF n.threw THEN [threw |-> TRUE]
    ELSE [threw |-> FALSE, method |-> "post", follow |-> 0, url |-> n.url,
          body |-> S(JsonStringify(postData)), query |-> n.query, logged |-> n.logged]

\* url.match(/[?|&]method=delete/i)
MatchesMethodDelete(url) ==
  \E i \in 1..(Len(url) - 3) :
    /\ url[i] \in {"?", "|", "&"}
    /\ ToLowerCase(url[i + 1]) = "method"
    /\ url[i + 2] = "="
    /\ ToLowerCase(url[i + 3]) = "delete"

\* The url delete() passes on: method=delete appended unless already there.
DeleteUrl(url) ==
  IF MatchesMethodDelete(url) THEN url
  ELSE url \o (IF Contains(url, <<"?">>) THEN <<"&">> ELSE <<"?">>)
           \o <<"method", "=", "delete">>

\* The postData delete() passes on, whatever the caller gave.
DeleteBody(url) ==
  IF Contains(DeleteUrl(url), <<"access_token">>)
  THEN O(<<>>)
  ELSE O(<< <<"access_token", accessToken>> >>)

\* delete(url, postData)
delete(url) == post(DeleteUrl(url), DeleteBody(url))

\* search(options)
search(options) ==
  get(<<"/", "search", "?">> \o Stringify(Or(options, O(<<>>)).m), U)

\* Object.assign(target, source)
RECURSIVE ObjectAssign(_, _)
ObjectAssign(target, source) ==
  IF source = <<>> THEN target
  ELSE ObjectAssign(SetProp(target, Head(source)[1], Head(source)[2]), Tail(source))

\* batch(reqs, additionalData)
batch(reqs, additionalData) ==
  post(<<>>,
       O(ObjectAssign(<< <<"access_token", accessToken>>,
                         <<"batch", S(JsonStringify(reqs))>> >>,
                      IF additionalData.t = "object" THEN additionalData.m ELSE <<>>)))

\* fql(query, params)
fql(query, params) ==
  get(<<"/", "fql", "?", "q", "=", PercentEncode(JsonStringify(query))>>, params)

\* The params of authorize without the guest marker.
AuthorizeParamsNotGuest(code) ==
  O(<< <<"client_id", config.client_id>>,
       <<"client_secret", config.client_secret>>,
       <<"redirect_uri", config.redirect_uri>>,
       <<"code", S(code)>> >>)

\* The params literal of authorize(code).
AuthorizeParams(code) ==
  O(<< <<"client_id", config.client_id>>,
       <<"client_secret", config.client_secret>>,
       <<"redirect_uri", config.redirect_uri>>,
       <<"code", S(code)>>,
       <<"guest", B(TRUE)>> >>)

OAuthAccessTokenPath == <<"/", "oauth", "/", "access_token">>

\* The params literal of extendAccessToken(access_token?).
ExtendParams(token) ==
  O(<< <<"grant_type", S("fb_exchange_token")>>,
       <<"fb_exchange_token", Or(token, accessToken)>> >>)

\* getOAuthUrl()
getOAuthUrl ==
  (IF Truthy(config.mobile) THEN oAuthDialogUrlMobile ELSE oAuthDialogUrl)
  \o Stringify(<< <<"client_id", config.client_id>>,
                  <<"redirect_uri", config.redirect_uri>>,
                  <<"scope", config.scope>> >>)

\* getAccessToken()
getAccessToken == accessToken

\* getScope()
getScope == config.scope

---------------------------------------------------------------------------
(* The inputs the operations are called with *)

Paths ==
  { <<"me">>,
    <<" ", "/", "me", " ">>,
    <<"me", "?", "fields", "=", "id">>,
    <<"me", "?", "appsecret_proof", "=", "callerproof">> }

ParamsChoices ==
  { U,
    O(<<>>),
    O(<< <<"fields", S("name")>>, <<"access_token", S("callertok")>>,
         <<"appsecret_proof", S("callerproof")>> >>),
    O(<< <<"guest", B(TRUE)>> >>),
    O(<< <<"guest", B(TRUE)>>, <<"access_token", S("callertok")>> >>),
    O(<< <<"guest", B(FALSE)>>, <<"fields", S("name")>> >>) }

PostPaths == { <<"me", "/", "feed">>, <<>> }

PostBodies == { U, O(<< <<"message", S("name")>> >>) }

DeletePaths ==
  { <<"123", "/", "likes">>,
    <<"123", "/", "likes", "?", "METHOD", "=", "Delete">>,
    <<"123", "/", "likes", "?", "access_token", "=", "callertok">> }

SearchOptions == { U, O(<< <<"q", S("name")>> >>) }

BatchReqs == { A(<< O(<< <<"method", S("GET")>>, <<"relative_url", S("me")>> >>) >>) }

BatchData == { U, O(<< <<"include_headers", B(FALSE)>> >>) }

FqlQueries == { O(<< <<"name", S("SELECT name FROM user")>> >>) }

FqlParams == { U, O(<<>>) }

Codes == { "codeXYZ" }

ExtendTokens == { U, S("oldtok") }

Versions == { "8.0", "9.0" }

Tokens == { "", "tok1" }

Scopes == { "email" }

\* The constructor arguments and environments of the clients that are used.
ClientSetups ==
  { << O(<< <<"client_id", S("123")>>, <<"client_secret", S("secret")>>,
            <<"redirect_uri", S("http://localhost:4000")>>, <<"scope", S("email")>> >>),
       O(<<>>) >>,
    << U,
       O(<< <<"FACEBOOK_CLIENT_ID", S("env123")>>,
            <<"FACEBOOK_REDIRECT_URI", S("http://env.example")>>,
            <<"FACEBOOK_SCOPE", S("email")>>,
            <<"FACEBOOK_DEBUG", S("true")>> >>) >> }

---------------------------------------------------------------------------
(* The operations *)

client == <<phase, ctorConfig, env, config, oAuthDialogUrl, oAuthDialogUrlMobile, graphUrl>>

\* The text of the query field k of a URL: the atom after "k=" in the query
\* string that follows the last "?" of the URL; "" stands for an empty value.
RECURSIVE LastIndexOf(_, _, _)
LastIndexOf(s, a, i) ==
  IF i = 0 THEN 0 ELSE IF s[i] = a THEN i ELSE LastIndexOf(s, a, i - 1)

QueryString(url) == SubSeq(url, LastIndexOf(url, "?", Len(url)) + 1, Len(url))

HasField(url, k) ==
  LET q == QueryString(url) IN
    \E i \in 1..Len(q) : i % 4 = 1 /\ q[i] = k

Field(url, k) ==
  LET q == QueryString(url) IN
    q[(CHOOSE i \in 1..Len(q) : i % 4 = 1 /\ q[i] = k) + 2]

\* What an in-flight request holds of its URL: the access_token and the
\* appsecret_proof it was sent with, when the client put both there.
Credentials(nParams, req) ==
  IF /\ ~Truthy(Prop(nParams, "guest"))
     /\ HasField(req.url, "access_token")
     /\ HasField(req.url, "appsecret_proof")
     /\ Prop(O(req.query), "appsecret_proof") # Prop(nParams, "appsecret_proof")
  THEN [signed |-> TRUE, access_token |-> Field(req.url, "access_token"),
        appsecret_proof |-> Field(req.url, "appsecret_proof")]
  ELSE [signed |-> FALSE]

\* The synchronous part of an async method: normalizeUrl throws and the promise
\* is rejected, or fetch is invoked and the call waits for it.  `then` names
\* the continuation that runs when the fetch settles.
Call(op, args, nUrl, nParams, req, then) ==
  /\ phase = "ready"
  /\ IF req.threw
     THEN /\ pending' = pending
          /\ ev' = [kind |-> "call", op |-> op, args |-> args, nUrl |-> nUrl,
                    nParams |-> nParams, token |-> accessToken,
                    request |-> req, outcome |-> Rejected(TypeError)]
     ELSE /\ BagCardinality(pending) < MaxInflight
          /\ pending' = pending (+) SetToBag({[op |-> then, sent |-> Credentials(nParams, req)]})
          /\ ev' = [kind |-> "call", op |-> op, args |-> args, nUrl |-> nUrl,
                    nParams |-> nParams, token |-> accessToken,
                    request |-> req, outcome |-> Sent]
  /\ UNCHANGED <<client, accessToken>>

Get(url, params) ==
  Call("get", [url |-> url, params |-> params], url, params, get(url, params), "get")

Post(url, postData) ==
  Call("post", [url |-> url, postData |-> postData], url, U, post(url, postData), "get")

Delete(url) ==
  Call("delete", [url |-> url], DeleteUrl(url), U, delete(url), "get")

Search(options) ==
  Call("search", [options |-> options],
       <<"/", "search", "?">> \o Stringify(Or(options, O(<<>>)).m), U,
       search(options), "get")

Batch(reqs, additionalData) ==
  Call("batch", [reqs |-> reqs, additionalData |-> additionalData], <<>>, U,
       batch(reqs, additionalData), "get")

Fql(query, params) ==
  Call("fql", [query |-> query, params |-> params],
       <<"/", "fql", "?", "q", "=", PercentEncode(JsonStringify(query))>>, params,
       fql(query, params), "get")

Authorize(code) ==
  Call("authorize", [code |-> code], OAuthAccessTokenPath, AuthorizeParams(code),
       get(OAuthAccessTokenPath, AuthorizeParams(code)), "authorize")

ExtendAccessToken(token) ==
  Call("extendAccessToken", [access_token |-> token], OAuthAccessTokenPath,
       ExtendParams(token), get(OAuthAccessTokenPath, ExtendParams(token)),
       "extendAccessToken")

\* The fetch of a verb call settles with `reply`: the caller's promise settles.
FetchSettles(reply) ==
  \E p \in BagToSet(pending) :
    /\ p.op = "get"
    /\ pending' = pending (-) SetToBag({p})
    /\ ev' = [kind |-> "settle", op |-> "get", reply |-> reply,
              outcome |-> FetchThenProcess(reply),
              tokenBefore |-> accessToken, tokenAfter |-> accessToken]
    /\ UNCHANGED <<client, accessToken>>

\* An assignment that swallows the rejection: the token becomes undefined.
StoreTokenEvenIfRejected(r) ==
  IF r.status = "resolved" THEN Prop(r.value, "access_token") ELSE U

\* this.accessToken = await this.get(...).then(response => response.access_token);
\* The await throws when the get is rejected, and nothing is assigned.
StoreToken(r) ==
  IF r.status = "resolved" THEN Prop(r.value, "access_token") ELSE accessToken

\* The rest of authorize and of extendAccessToken, once the fetch has settled:
\* the assignment, and return this.accessToken.
ResumeWithToken(op, reply) ==
  \E p \in BagToSet(pending) :
    /\ p.op = op
    /\ pending' = pending (-) SetToBag({p})
    /\ LET r == FetchThenProcess(reply) IN
         /\ accessToken' = StoreToken(r)
         /\ ev' = [kind |-> "settle", op |-> op, reply |-> reply,
                   outcome |-> IF r.status = "resolved" THEN Resolved(accessToken') ELSE r,
                   tokenBefore |-> accessToken, tokenAfter |-> accessToken']
    /\ UNCHANGED client

AuthorizeResumes(reply) == ResumeWithToken("authorize", reply)

ExtendAccessTokenResumes(reply) == ResumeWithToken("extendAccessToken", reply)

SetVersion(version) ==
  /\ phase = "ready"
  /\ LET r == setVersion(config, version) IN
       /\ config' = r.config
       /\ oAuthDialogUrl' = r.oAuthDialogUrl
       /\ oAuthDialogUrlMobile' = r.oAuthDialogUrlMobile
       /\ graphUrl' = r.graphUrl
  /\ ev' = [kind |-> "setVersion", version |-> version]
  /\ UNCHANGED <<phase, ctorConfig, env, accessToken, pending>>

SetAccessToken(token) ==
  /\ phase = "ready"
  /\ accessToken' = S(token)
  /\ ev' = [kind |-> "setAccessToken", token |-> token]
  /\ UNCHANGED <<client, pending>>

SetScope(scope) ==
  /\ phase = "ready"
  /\ config' = [config EXCEPT !.scope = S(scope)]
  /\ ev' = [kind |-> "setScope", scope |-> scope]
  /\ UNCHANGED <<phase, ctorConfig, env, oAuthDialogUrl, oAuthDialogUrlMobile,
                 graphUrl, accessToken, pending>>

GetOAuthUrl ==
  /\ phase = "ready"
  /\ ev' = [kind |-> "getOAuthUrl", result |-> getOAuthUrl]
  /\ UNCHANGED <<client, accessToken, pending>>

---------------------------------------------------------------------------
(* Specifications *)

Init == \E s \in ClientSetups : Constructed(s[1], s[2])

Next ==
  \/ \E u \in Paths, p \in ParamsChoices : Get(u, p)
  \/ \E u \in PostPaths, d \in PostBodies : Post(u, d)
  \/ \E u \in DeletePaths : Delete(u)
  \/ \E o \in SearchOptions : Search(o)
  \/ \E q \in BatchReqs, d \in BatchData : Batch(q, d)
  \/ \E q \in FqlQueries, p \in FqlParams : Fql(q, p)
  \/ \E c \in Codes : Authorize(c)
  \/ \E t \in ExtendTokens : ExtendAccessToken(t)
  \/ \E r \in Replies : FetchSettles(r)
  \/ \E r \in Replies : AuthorizeResumes(r)
  \/ \E r \in Replies : ExtendAccessTokenResumes(r)
  \/ \E v \in Versions : SetVersion(v)
  \/ \E t \in Tokens : SetAccessToken(t)
  \/ \E s \in Scopes : SetScope(s)
  \/ GetOAuthUrl

Spec == Init /\ [][Next]_vars

\* Construction alone: the constructor applied to every combination of
\* explicit fields and environment values below.
Present(k, v) == IF v.t = "undefined" THEN <<>> ELSE << <<k, v>> >>

CtorConfigs ==
  {U} \cup
  { O(Present("client_id", w[1]) \o Present("client_secret", w[2]) \o Present("scope", w[3])
      \o Present("redirect_uri", r) \o Present("version", v)
      \o Present("mobile", m) \o Present("debug", d)) :
      w \in { <<U, U, U>>, <<S(""), S(""), S("")>>, <<S("123"), S("secret"), S("email")>> },
      r \in { U, S("http://localhost:4000"), S("http://localhost:4000/cb") },
      v \in { U, S("9.0") },
      m \in { U, B(TRUE), B(FALSE) },
      d \in { U, B(TRUE), B(FALSE) } }

CtorEnvs ==
  { O(Present("FACEBOOK_CLIENT_ID", w[1]) \o Present("FACEBOOK_CLIENT_SECRET", w[2])
      \o Present("FACEBOOK_SCOPE", w[3]) \o Present("FACEBOOK_REDIRECT_URI", r)
      \o Present("FACEBOOK_VERSION", v) \o Present("FACEBOOK_MOBILE", m)
      \o Present("FACEBOOK_DEBUG", d)) :
      w \in { <<U, U, U>>, <<S("env123"), S("envsecret"), S("email,user_friends")>> },
      r \in { U, S("http://env.example") },
      v \in { U, S("7.0") },
      m \in { U, S("TRUE"), S("false") },
      d \in { U, S("true") } }

InitCtor == \E c \in CtorConfigs, e \in CtorEnvs : Fresh(c, e)

NextCtor == Construct

SpecCtor == InitCtor /\ [][NextCtor]_vars

---------------------------------------------------------------------------
(* Properties *)

ConfigFields == {"client_id", "client_secret", "scope", "version", "mobile", "debug"}

\* C5: at construction, every configuration field that is explicitly present is
\* stored as given (the redirect URI up to its trailing slash), whatever the
\* environment holds: the environment is used only for the absent fields.
C5_ExplicitTakesPrecedence ==
  phase = "ready" =>
    /\ \A f \in ConfigFields :
         Prop(ctorConfig, f).t # "undefined" => config[f] = Prop(ctorConfig, f)
    /\ Prop(ctorConfig, "redirect_uri").t # "undefined" =>
         config.redirect_uri =
           NormalizeRedirectUri([redirect_uri |-> Prop(ctorConfig, "redirect_uri")]).redirect_uri

\* C9: after construction and after every operation the three endpoints are
\* the templates of config.version, and setVersion(v) on a client whose version
\* is v already leaves the three endpoints as they are.
C9_EndpointsFollowVersion ==
  /\ [](phase = "ready" =>
          /\ config.version.t = "string"
          /\ oAuthDialogUrl = <<"https://www.facebook.com/v", config.version.v, "/dialog/oauth?">>
          /\ oAuthDialogUrlMobile = <<"https://m.www.facebook.com/v", config.version.v, "/dialog/oauth?">>
          /\ graphUrl = <<"https://graph.facebook.com/v", config.version.v>>)
  /\ [][(phase = "ready" /\ ev'.kind = "setVersion" /\ ev'.version = config.version.v) =>
          /\ config'.version = config.version
          /\ UNCHANGED <<oAuthDialogUrl, oAuthDialogUrlMobile, graphUrl>>]_vars

\* A setVersion to another version has just run, and the endpoints changed.
C9_Witness ==
  /\ ev.kind = "setVersion"
  /\ ev.version = "9.0"
  /\ Prop(ctorConfig, "version").t = "undefined"
  /\ graphUrl = <<"https://graph.facebook.com/v", "9.0">>

Verbs == {"get", "post", "delete", "search", "batch", "fql"}

\* rawUrl as normalizeUrl puts it after the base: trimmed, one leading slash off.
PathOf(rawUrl) ==
  LET t == Trim(rawUrl) IN IF t # <<>> /\ Head(t) = "/" THEN Tail(t) ELSE t

HasErrorObject(reply) == reply.kind = "response" /\ Prop(reply.data, "error").t = "object"

\* C1: with a non-empty token and a non-empty client secret, get(path) without
\* params hands the transport one GET of
\* {graphUrl}/{path}?access_token=t&appsecret_proof=HMAC-SHA256(secret, t),
\* and does not fail before the transport is invoked.
C1_GetWithoutParams ==
  (/\ ev.kind = "call"
   /\ ev.op = "get"
   /\ ev.args.params.t = "undefined"
   /\ Truthy(ev.token)
   /\ Truthy(config.client_secret)) =>
    /\ ~ev.request.threw
    /\ ev.outcome = Sent
    /\ ev.request.method = "get"
    /\ ev.request.url =
         graphUrl \o <<"/">> \o PathOf(ev.args.url)
         \o <<"?", "access_token", "=", ev.token.v, "&", "appsecret_proof", "=",
              HmacSha256Hex(config.client_secret.v, ev.token.v)>>

\* C2: delete(path), for a path without access_token, hands the transport one
\* POST whose body is {access_token: <current token>} and whose URL has
\* method=delete exactly once, a method=delete already in the path included.
C2_DeleteIsPost ==
  (/\ ev.kind = "call"
   /\ ev.op = "delete"
   /\ ~Contains(ev.args.url, <<"access_token">>)) =>
    /\ ~ev.request.threw
    /\ ev.outcome = Sent
    /\ ev.request.method = "post"
    /\ ev.request.body = S(JsonStringify(O(<< <<"access_token", ev.token>> >>)))
    /\ Cardinality({i \in 1..Len(ev.request.url) :
                      /\ i + 2 <= Len(ev.request.url)
                      /\ ToLowerCase(ev.request.url[i]) = "method"
                      /\ ev.request.url[i + 1] = "="
                      /\ ToLowerCase(ev.request.url[i + 2]) = "delete"}) = 1

\* C3: the steps of an authorize that fails (the transport fails, or the
\* decoded response has an error object) leave accessToken as it was: neither
\* the call nor the failing continuation writes it, and a continuation that
\* writes it has decoded a response without an error object.
C3_FailedAuthorizeKeepsToken ==
  /\ (ev.kind = "call" /\ ev.op = "authorize") => accessToken = ev.token
  /\ (/\ ev.kind = "settle"
      /\ ev.op = "authorize"
      /\ (ev.reply.kind = "failure" \/ HasErrorObject(ev.reply))) =>
       /\ ev.outcome.status = "rejected"
       /\ accessToken = ev.tokenBefore
  /\ (/\ ev.kind = "settle"
      /\ ev.op = "authorize"
      /\ accessToken # ev.tokenBefore) =>
       /\ ev.reply.kind = "response"
       /\ ~HasErrorObject(ev.reply)

\* An authorize of a client that held a token has just failed on an error
\* response that also carried an access_token.
C3_Witness ==
  /\ ev.kind = "settle"
  /\ ev.op = "authorize"
  /\ HasErrorObject(ev.reply)
  /\ Prop(ev.reply.data, "access_token") = S("badtok")
  /\ ev.tokenBefore = S("tok1")
  /\ ev.outcome.status = "rejected"

C6_GuestAndInjection ==
  ev.kind = "call" =>
    /\ ~ev.request.threw
    /\ ~HasField(ev.request.url, "guest")
    /\ IF Truthy(Prop(ev.nParams, "guest"))
       THEN ~HasField(ev.request.url, "access_token")
       ELSE /\ HasField(ev.request.url, "access_token")
            /\ Field(ev.request.url, "access_token") = StringifyPrimitive(ev.token)

\* C7, as claimed: with a params map, a token and a secret, the URL carries the
\* HMAC unless the params map already has an appsecret_proof, which is kept;
\* without a token or a secret no appsecret_proof is added.
C7_CallerProofKept ==
  (ev.kind = "call" /\ ev.nParams.t = "object") =>
    /\ ~ev.request.threw
    /\ IF Truthy(ev.token) /\ Truthy(config.client_secret)
       THEN IF ~HasKey(ev.nParams.m, "appsecret_proof")
            THEN /\ HasField(ev.request.url, "appsecret_proof")
                 /\ Field(ev.request.url, "appsecret_proof")
                      = HmacSha256Hex(config.client_secret.v, ev.token.v)
            ELSE /\ HasField(ev.request.url, "appsecret_proof")
                 /\ Field(ev.request.url, "appsecret_proof")
                      = Prop(ev.nParams, "appsecret_proof").v
       ELSE HasField(ev.request.url, "appsecret_proof")
              <=> HasKey(ev.nParams.m, "appsecret_proof")

\* C7, amended: with a params map, a token and a secret, the query carries the
\* HMAC of the token under the secret, replacing an appsecret_proof of the
\* params map, unless the path contains appsecret_proof; then, and without a
\* token or a secret, nothing is computed and the params map's own
\* appsecret_proof, if it has one, is serialized as given.
C7_ProofUnlessPathHasOne ==
  (ev.kind = "call" /\ ev.nParams.t = "object") =>
    /\ ~ev.request.threw
    /\ IF /\ Truthy(ev.token)
          /\ Truthy(config.client_secret)
          /\ ~Contains(ev.nUrl, <<"appsecret_proof">>)
       THEN /\ HasField(ev.request.url, "appsecret_proof")
            /\ Field(ev.request.url, "appsecret_proof")
                 = HmacSha256Hex(config.client_secret.v, ev.token.v)
       ELSE /\ HasField(ev.request.url, "appsecret_proof")
                 <=> HasKey(ev.nParams.m, "appsecret_proof")
            /\ HasKey(ev.nParams.m, "appsecret_proof") =>
                 Field(ev.request.url, "appsecret_proof")
                   = Prop(ev.nParams, "appsecret_proof").v

\* A get whose params carried an appsecret_proof of the caller's was sent with
\* the client's HMAC in its place.
C7_Witness ==
  /\ ev.kind = "call"
  /\ ev.op = "get"
  /\ Prop(ev.nParams, "appsecret_proof") = S("callerproof")
  /\ ev.token = S("tok1")
  /\ ~ev.request.threw
  /\ Field(ev.request.url, "appsecret_proof") = HmacSha256Hex("secret", "tok1")

\* C8: authorize(code) sends one guest GET of oauth/access_token with
\* client_id, client_secret, redirect_uri and code and no access_token; when it
\* resolves on a response {access_token: tok}, accessToken is tok,
\* getAccessToken() returns tok and authorize returned tok.
C8_AuthorizeStoresToken ==
  /\ (ev.kind = "call" /\ ev.op = "authorize") =>
       /\ ~ev.request.threw
       /\ ev.outcome = Sent
       /\ ev.request.method = "get"
       /\ ev.request.url =
            graphUrl \o <<"/", "oauth", "/", "access_token", "?",
                          "client_id", "=", PercentEncode(config.client_id.v), "&",
                          "client_secret", "=", PercentEncode(config.client_secret.v), "&",
                          "redirect_uri", "=", PercentEncode(config.redirect_uri.v), "&",
                          "code", "=", ev.args.code>>
            \o (IF Truthy(ev.token) /\ Truthy(config.client_secret)
                THEN <<"&", "appsecret_proof", "=",
                       HmacSha256Hex(config.client_secret.v, ev.token.v)>>
                ELSE <<>>)
       /\ ~HasField(ev.request.url, "access_token")
  /\ (/\ ev.kind = "settle"
      /\ ev.op = "authorize"
      /\ ev.reply.kind = "response"
      /\ ~HasErrorObject(ev.reply)
      /\ Prop(ev.reply.data, "access_token").t = "string") =>
       /\ accessToken = Prop(ev.reply.data, "access_token")
       /\ getAccessToken = Prop(ev.reply.data, "access_token")
       /\ ev.outcome = Resolved(Prop(ev.reply.data, "access_token"))

\* An unauthorized client has just been authorized with the token "newtok".
C8_Witness ==
  /\ ev.kind = "settle"
  /\ ev.op = "authorize"
  /\ ev.tokenBefore = S("")
  /\ ev.outcome = Resolved(S("newtok"))
  /\ accessToken = S("newtok")

\* C10: whatever was interleaved, a request in flight that the client gave its
\* access_token and a proof it computed carries the proof of that very token
\* under the client secret.
C10_CredentialsAgree ==
  \A p \in BagToSet(pending) :
    p.sent.signed =>
      p.sent.appsecret_proof = HmacSha256Hex(config.client_secret.v, p.sent.access_token)

\* A signed request is in flight while an authorize, resumed, has replaced the
\* token it was signed with.
C10_Witness ==
  /\ ev.kind = "settle"
  /\ ev.op = "authorize"
  /\ ev.tokenAfter = S("newtok")
  /\ \E p \in BagToSet(pending) :
       /\ p.op = "get"
       /\ p.sent.signed
       /\ p.sent.access_token = "tok1"
       /\ p.sent.appsecret_proof = HmacSha256Hex("secret", "tok1")

====
